---- MODULE Spec2Model ----
(***************************************************************************)
(* AdaptiveAudioRecorder (src/code_1.py): silence-gated capture, flush of  *)
(* the buffer, fixed-size chunking and per-chunk transcription with a      *)
(* fallback engine.                                                        *)
(*                                                                         *)
(* Two threads: the main thread (record_audio, then save_recording,        *)
(* _process_chunks and _transcribe_chunk, followed by pc) and the audio    *)
(* thread, which runs audio_callback while the stream is open.  The        *)
(* callback is not re-entered, so one invocation is one step.              *)
(*                                                                         *)
(* Abstractions: a block is one sample of the concatenated buffer and is   *)
(* identified by its arrival number; _is_silent's verdict on a block is    *)
(* an input; time is an integer clock; the engines' and the file system's  *)
(* outcomes are inputs.  Writing a WAV file is taken to succeed, and       *)
(* Ctrl+C is taken to arrive during the poll loop.  Sample values and      *)
(* their int16 scaling in _save_wav are not modelled.                      *)
(***************************************************************************)
EXTENDS Integers, Sequences

\* ---------------------------------------------------------------- bounds
MaxBlocks == 3
MaxTime == 3
MaxChunkSamples == 3
MaxPause == 1
\* the chunk splitter on its own: buffer length and chunk size
SplitMaxSamples == 11
SplitMaxChunk == 5

\* last_sound_time before record_audio has run (self.last_sound_time = None)
None == -1

VARIABLES
    pc,              \* position of the main thread
    timeArg,         \* what the audio runtime passes as the callback's `time`
    chunk_samples,   \* int(chunk_duration * sample_rate)
    pause_threshold, \* self.pause_threshold
    now,             \* wall clock, the value time.time() of module time returns
    recording,       \* self.recording
    frames,          \* self.frames: arrival numbers of the appended blocks
    last_sound_time, \* self.last_sound_time
    streamOpen,      \* the sd.InputStream context is entered
    delivered,       \* history: every block handed to audio_callback
    sessionStart,    \* history: the clock when record_audio started
    stoppedAt,       \* history: arrival number of the block whose callback first
                     \*          set recording to False (0: none so far)
    exitPath,        \* how the with-block of record_audio was left
    saveCalls,       \* history: number of calls of save_recording
    audio_data,      \* np.concatenate(self.frames)
    i,               \* loop variable of _process_chunks
    files,           \* history: files written, in order
    calls,           \* history: engine calls made for the current chunk
    primary,         \* outcome of recognize_google for the current chunk
    text,            \* local `text` of _transcribe_chunk (FALSE: unbound)
    result           \* the message _transcribe_chunk printed for the chunk

vars == <<pc, timeArg, chunk_samples, pause_threshold, now, recording, frames,
          last_sound_time, streamOpen, delivered, sessionStart, stoppedAt,
          exitPath, saveCalls, audio_data, i, files, calls, primary, text, result>>

captureVars == <<recording, frames, last_sound_time, delivered, sessionStart,
                 stoppedAt>>
chunkVars == <<audio_data, i, files, calls, primary, text, result>>
configVars == <<timeArg, chunk_samples, pause_threshold>>

\* ------------------------------------------------------------- helpers
Min(a, b) == IF a < b THEN a ELSE b

\* The callback's third parameter is named `time` and hides module `time`
\* inside audio_callback.  "clock": the object passed has a time() method
\* that reads the wall clock.  "struct": it is the runtime's timestamp
\* structure (inputBufferAdcTime, currentTime, ...), which has no time().
TimeArgs == {"clock", "struct"}

\* `time.time()` inside audio_callback raises AttributeError
TimeRaises == timeArg = "struct"

\* off by one: a gap equal to the pause threshold already stops the recording
PauseReached(gap) == gap >= pause_threshold

\* line 65: time.time() - self.last_sound_time > self.pause_threshold
PauseExceeded(gap) == gap > pause_threshold

\* ------------------------------------------------------------- __init__
Init ==
    /\ pc = "init"
    /\ timeArg \in TimeArgs
    /\ chunk_samples \in 1..MaxChunkSamples
    /\ pause_threshold \in 1..MaxPause
    /\ now = 0
    /\ recording = FALSE
    /\ frames = <<>>
    /\ last_sound_time = None
    /\ streamOpen = FALSE
    /\ delivered = <<>>
    /\ sessionStart = None
    /\ stoppedAt = 0
    /\ exitPath = "none"
    /\ saveCalls = 0
    /\ audio_data = <<>>
    /\ i = 0
    /\ files = <<>>
    /\ calls = <<>>
    /\ primary = "none"
    /\ text = FALSE
    /\ result = "none"

\* ---------------------------------------------------------- record_audio
\* lines 54-56
record_audio ==
    /\ pc = "init"
    /\ recording' = TRUE
    /\ frames' = <<>>
    /\ last_sound_time' = now
    /\ sessionStart' = now
    /\ pc' = "open"
    /\ UNCHANGED <<configVars, now, streamOpen, delivered, stoppedAt, exitPath,
                   saveCalls, chunkVars>>

\* lines 77-82: the stream opens and starts
open_stream ==
    /\ pc = "open"
    /\ streamOpen' = TRUE
    /\ pc' = "poll"
    /\ UNCHANGED <<configVars, now, captureVars, exitPath, saveCalls, chunkVars>>

\* lines 77-82, 87-88: opening the stream raises (device unavailable)
open_stream_error ==
    /\ pc = "open"
    /\ exitPath' = "error"
    /\ pc' = "finally"
    /\ UNCHANGED <<configVars, now, captureVars, streamOpen, saveCalls, chunkVars>>

\* lines 58-73: one invocation of the callback, on the audio thread
audio_callback(silent) ==
    /\ streamOpen
    /\ Len(delivered) < MaxBlocks
    /\ LET id == Len(delivered) + 1
           gap == now - last_sound_time
       IN /\ delivered' = Append(delivered, [silent |-> silent,
                                              over |-> gap > pause_threshold])
          /\ IF TimeRaises
             THEN \* lines 65 and 70 raise before anything is assigned
                  UNCHANGED <<recording, frames, last_sound_time, stoppedAt>>
             ELSE IF silent
                  THEN IF PauseExceeded(gap)
                       THEN /\ recording' = FALSE
                            /\ stoppedAt' = IF stoppedAt = 0 THEN id ELSE stoppedAt
                            /\ UNCHANGED <<frames, last_sound_time>>
                       ELSE /\ frames' = Append(frames, id)
                            /\ UNCHANGED <<recording, last_sound_time, stoppedAt>>
                  ELSE /\ last_sound_time' = now
                       /\ frames' = Append(frames, id)
                       /\ UNCHANGED <<recording, stoppedAt>>
    /\ UNCHANGED <<pc, configVars, now, streamOpen, sessionStart, exitPath,
                   saveCalls, chunkVars>>

\* line 85: sd.sleep(100) lets the clock advance
poll_sleep ==
    /\ pc = "poll"
    /\ now < MaxTime
    /\ now' = now + 1
    /\ UNCHANGED <<pc, configVars, captureVars, streamOpen, exitPath, saveCalls,
                   chunkVars>>

\* save_recording reached from inside the with-block: the stream stays open
poll_exit_stream_open ==
    /\ pc = "poll"
    /\ ~recording
    /\ exitPath' = "stopped"
    /\ pc' = "finally"
    /\ UNCHANGED <<configVars, now, captureVars, streamOpen, saveCalls, chunkVars>>

\* line 84 finds self.recording False: the with-block ends and closes the stream
poll_exit ==
    /\ pc = "poll"
    /\ ~recording
    /\ streamOpen' = FALSE
    /\ exitPath' = "stopped"
    /\ pc' = "finally"
    /\ UNCHANGED <<configVars, now, captureVars, saveCalls, chunkVars>>

\* the flush placed after the with-block instead of in a finally clause: a
\* stream error leaves record_audio without it
capture_error_unflushed ==
    /\ pc = "poll"
    /\ streamOpen' = FALSE
    /\ exitPath' = "error"
    /\ pc' = "done"
    /\ UNCHANGED <<configVars, now, captureVars, saveCalls, chunkVars>>

\* lines 84-88: the running stream raises; the with-block closes it, the
\* except clause prints
capture_error ==
    /\ pc = "poll"
    /\ streamOpen' = FALSE
    /\ exitPath' = "error"
    /\ pc' = "finally"
    /\ UNCHANGED <<configVars, now, captureVars, saveCalls, chunkVars>>

\* lines 84-90, 202-205: Ctrl+C during the poll loop; not an Exception, so
\* only the finally clause runs before it reaches main
keyboard_interrupt ==
    /\ pc = "poll"
    /\ streamOpen' = FALSE
    /\ exitPath' = "interrupt"
    /\ pc' = "finally"
    /\ UNCHANGED <<configVars, now, captureVars, saveCalls, chunkVars>>

\* where control goes when save_recording returns
Returned == IF exitPath = "interrupt" THEN "interrupted" ELSE "done"

\* ------------------------------------------------------- save_recording
\* lines 90, 92-112 up to the call of _process_chunks
save_recording ==
    /\ pc = "finally"
    /\ saveCalls' = saveCalls + 1
    /\ IF frames = <<>>
       THEN /\ pc' = Returned
            /\ UNCHANGED <<audio_data, i, files>>
       ELSE /\ audio_data' = frames
            /\ files' = Append(files, [kind |-> "full", k |-> 0, lo |-> 0,
                                       hi |-> Len(frames)])
            /\ i' = 0
            /\ pc' = "chunks"
    /\ UNCHANGED <<configVars, now, captureVars, streamOpen, exitPath, calls,
                   primary, text, result>>

\* ------------------------------------------------------ _process_chunks
\* every window taken as a full one, as if the last chunk were padded
ChunkLenPadded(start) == chunk_samples

\* line 144: len(audio_data[i:i+chunk_samples])
ChunkLen(start) == Min(chunk_samples, Len(audio_data) - start)

\* every partial chunk dropped, whatever its length
TooSmallWhenPartial(len) == len < chunk_samples

\* line 147: len(chunk) < chunk_samples / 2 (true division)
TooSmall(len) == 2 * len < chunk_samples

\* lines 143-152: one iteration of the loop up to the call of _transcribe_chunk
process_chunks ==
    /\ pc = "chunks"
    /\ IF i >= Len(audio_data) \/ TooSmall(ChunkLen(i))
       THEN /\ pc' = Returned
            /\ UNCHANGED <<files, calls, primary, text, result>>
       ELSE /\ files' = Append(files, [kind |-> "chunk", k |-> i \div chunk_samples,
                                       lo |-> i, hi |-> i + ChunkLen(i)])
            /\ calls' = <<>>
            /\ primary' = "none"
            /\ text' = FALSE
            /\ result' = "none"
            /\ pc' = "audiofile"
    /\ UNCHANGED <<configVars, now, captureVars, streamOpen, exitPath, saveCalls,
                   audio_data, i>>

\* ----------------------------------------------------- _transcribe_chunk
\* _transcribe_chunk returns; the for loop of line 143 advances
NextChunk ==
    /\ pc' = "chunks"
    /\ i' = i + chunk_samples

\* lines 165-166
audio_file ==
    /\ pc = "audiofile"
    /\ pc' = "google"
    /\ UNCHANGED <<configVars, now, captureVars, streamOpen, exitPath, saveCalls,
                   chunkVars>>

\* lines 165-166, 193-194: the chunk file cannot be read
audio_file_error ==
    /\ pc = "audiofile"
    /\ result' = "Transcription error"
    /\ NextChunk
    /\ UNCHANGED <<configVars, now, captureVars, streamOpen, exitPath, saveCalls,
                   audio_data, files, calls, primary, text>>

GoogleOutcomes == {"text", "UnknownValueError", "RequestError", "Exception"}

\* the fallback tried on unintelligible audio as well
AfterGoogleFallbackOnAny(outcome) ==
    CASE outcome = "text" -> "write"
      [] outcome = "UnknownValueError" -> "sphinx"
      [] outcome = "RequestError" -> "sphinx"
      [] OTHER -> "except"

\* unintelligible audio falling through to the transcript write
AfterGoogleWriteUnintelligible(outcome) ==
    CASE outcome = "text" -> "write"
      [] outcome = "UnknownValueError" -> "write"
      [] outcome = "RequestError" -> "sphinx"
      [] OTHER -> "except"

\* lines 168-175: which handler takes the outcome of recognize_google
AfterGoogle(outcome) ==
    CASE outcome = "text" -> "write"
      [] outcome = "UnknownValueError" -> "return"
      [] outcome = "RequestError" -> "sphinx"
      [] OTHER -> "except"

\* lines 168-175, 193-194
recognize_google(outcome) ==
    /\ pc = "google"
    /\ calls' = Append(calls, "google")
    /\ primary' = outcome
    /\ text' = (outcome = "text")
    /\ CASE AfterGoogle(outcome) = "write" ->
              pc' = "write" /\ UNCHANGED <<i, result>>
         [] AfterGoogle(outcome) = "sphinx" ->
              pc' = "sphinx" /\ UNCHANGED <<i, result>>
         [] AfterGoogle(outcome) = "return" ->
              result' = "Could not understand audio" /\ NextChunk
         [] OTHER ->
              result' = "Transcription error" /\ NextChunk
    /\ UNCHANGED <<configVars, now, captureVars, streamOpen, exitPath, saveCalls,
                   audio_data, files>>

SphinxOutcomes == {"text", "Exception"}

\* lines 176-180
recognize_sphinx(outcome) ==
    /\ pc = "sphinx"
    /\ calls' = Append(calls, "sphinx")
    /\ text' = (outcome = "text")
    /\ IF outcome = "text"
       THEN pc' = "write" /\ UNCHANGED <<i, result>>
       ELSE result' = "Failed to transcribe" /\ NextChunk
    /\ UNCHANGED <<configVars, now, captureVars, streamOpen, exitPath, saveCalls,
                   audio_data, files, primary>>

\* the chunk file written last
CurrentChunk == files[Len(files)]

\* lines 183-191
write_transcript ==
    /\ pc = "write"
    /\ files' = Append(files, [CurrentChunk EXCEPT !.kind = "transcript"])
    /\ result' = "Transcribed"
    /\ NextChunk
    /\ UNCHANGED <<configVars, now, captureVars, streamOpen, exitPath, saveCalls,
                   audio_data, calls, primary, text>>

\* lines 188-189, 193-194: opening or writing the transcript file raises
write_transcript_error ==
    /\ pc = "write"
    /\ result' = "Transcription error"
    /\ NextChunk
    /\ UNCHANGED <<configVars, now, captureVars, streamOpen, exitPath, saveCalls,
                   audio_data, files, calls, primary, text>>

\* ------------------------------------------------------------------ spec
Next ==
    \/ record_audio
    \/ open_stream
    \/ open_stream_error
    \/ \E silent \in BOOLEAN : audio_callback(silent)
    \/ poll_sleep
    \/ poll_exit
    \/ capture_error
    \/ keyboard_interrupt
    \/ save_recording
    \/ process_chunks
    \/ audio_file
    \/ audio_file_error
    \/ \E outcome \in GoogleOutcomes : recognize_google(outcome)
    \/ \E outcome \in SphinxOutcomes : recognize_sphinx(outcome)
    \/ write_transcript
    \/ write_transcript_error

Spec == Init /\ [][Next]_vars

\* ------------------------------------------------ the chunk splitter alone
\* The state in which save_recording (lines 100-112) calls _process_chunks on
\* a buffer of n samples: n audible blocks were captured, the running stream
\* raised, and the full recording has been written.
Flushed(n, size) ==
    /\ pc = "chunks"
    /\ timeArg = "clock"
    /\ chunk_samples = size
    /\ pause_threshold = 1
    /\ now = 0
    /\ recording = TRUE
    /\ frames = [j \in 1..n |-> j]
    /\ last_sound_time = 0
    /\ streamOpen = FALSE
    /\ delivered = [j \in 1..n |-> [silent |-> FALSE, over |-> FALSE]]
    /\ sessionStart = 0
    /\ stoppedAt = 0
    /\ exitPath = "error"
    /\ saveCalls = 1
    /\ audio_data = [j \in 1..n |-> j]
    /\ i = 0
    /\ files = <<[kind |-> "full", k |-> 0, lo |-> 0, hi |-> n]>>
    /\ calls = <<>>
    /\ primary = "none"
    /\ text = FALSE
    /\ result = "none"

InitSplit == \E n \in 1..SplitMaxSamples, size \in 1..SplitMaxChunk : Flushed(n, size)

NextSplit ==
    \/ process_chunks
    \/ audio_file
    \/ audio_file_error
    \/ \E outcome \in GoogleOutcomes : recognize_google(outcome)
    \/ \E outcome \in SphinxOutcomes : recognize_sphinx(outcome)
    \/ write_transcript
    \/ write_transcript_error

SpecSplit == InitSplit /\ [][NextSplit]_vars

\* ------------------------------------------------------------ observations
Done == pc \in {"done", "interrupted"}
Capturing == pc \in {"init", "open", "poll"}
Transcribing == pc \in {"audiofile", "google", "sphinx", "write"}
ChunkFiles == SelectSeq(files, LAMBDA f : f.kind = "chunk")
Transcripts == SelectSeq(files, LAMBDA f : f.kind = "transcript")
BufferLen == Len(audio_data)
Remainder == BufferLen % chunk_samples
SphinxCalls == Len(SelectSeq(calls, LAMBDA e : e = "sphinx"))
AllSilent == \A j \in 1..Len(delivered) : delivered[j].silent
LastFile == files[Len(files)]

\* ------------------------------------------------------------------ C1
\* C1 as claimed: _process_chunks always produces exactly floor(L/S) chunks
\* and never writes a chunk shorter than S samples.
C1_AlwaysFloor ==
    Done =>
        /\ Len(ChunkFiles) = BufferLen \div chunk_samples
        /\ \A n \in 1..Len(ChunkFiles) :
               ChunkFiles[n].hi - ChunkFiles[n].lo = chunk_samples

\* C1 amended: _process_chunks produces floor(L/S) chunks when the remainder
\* L mod S is below S/2, and floor(L/S)+1 chunks when it is at least S/2; in
\* the second case the last chunk is the unpadded remainder, and it is the
\* only chunk shorter than S samples.
C1_ChunkCount ==
    Done =>
        /\ Len(ChunkFiles) = IF 2 * Remainder >= chunk_samples
                             THEN (BufferLen \div chunk_samples) + 1
                             ELSE BufferLen \div chunk_samples
        /\ \A n \in 1..Len(ChunkFiles) :
               LET len == ChunkFiles[n].hi - ChunkFiles[n].lo
               IN IF n = Len(ChunkFiles) /\ 2 * Remainder >= chunk_samples
                  THEN len = Remainder
                  ELSE len = chunk_samples

\* two full chunks written and a remainder below half a chunk dropped
\* (the shape of the 65 s buffer with 30 s chunks: 11 samples, 5-sample chunks)
C1_Witness ==
    /\ Done
    /\ BufferLen = 11
    /\ chunk_samples = 5
    /\ Len(ChunkFiles) = 2
    /\ ChunkFiles[2].hi = 10

\* ------------------------------------------------------------------ C5
\* C5 as claimed: the k-th chunk covers exactly samples [k*S, (k+1)*S).
C5_ExactWindows ==
    \A n \in 1..Len(ChunkFiles) :
        /\ ChunkFiles[n].k = n - 1
        /\ ChunkFiles[n].lo = (n - 1) * chunk_samples
        /\ ChunkFiles[n].hi = n * chunk_samples
        /\ ChunkFiles[n].hi <= BufferLen

\* C5 amended: chunks are written in increasing order with indices 0, 1, ...
\* without gaps; the k-th covers samples [k*S, min((k+1)*S, L)), so every
\* chunk but a final remainder of at least S/2 samples is S samples long; no
\* two chunks share a sample and no chunk reaches past the buffer.
C5_Windows ==
    \A n \in 1..Len(ChunkFiles) :
        /\ ChunkFiles[n].k = n - 1
        /\ ChunkFiles[n].lo = (n - 1) * chunk_samples
        /\ ChunkFiles[n].hi = Min(n * chunk_samples, BufferLen)
        /\ ChunkFiles[n].lo < ChunkFiles[n].hi
        /\ n > 1 => ChunkFiles[n - 1].hi = ChunkFiles[n].lo

\* three chunks written, the last one a remainder shorter than a chunk
C5_Witness ==
    /\ Len(ChunkFiles) = 3
    /\ ChunkFiles[3].hi - ChunkFiles[3].lo < chunk_samples
    /\ ChunkFiles[2].hi - ChunkFiles[2].lo = chunk_samples

\* ------------------------------------------------------------------ C2
\* C2: recognize_sphinx is called only after recognize_google raised
\* RequestError, and then exactly once for the chunk; it is not called when
\* recognize_google returned text or raised UnknownValueError.
C2_FallbackOnlyOnRequestError ==
    /\ SphinxCalls <= 1
    /\ SphinxCalls = 1 => primary = "RequestError" /\ calls = <<"google", "sphinx">>
    /\ primary \in {"text", "UnknownValueError"} => SphinxCalls = 0
    /\ (primary = "RequestError" /\ result # "none") => SphinxCalls = 1

\* a chunk whose primary engine raised RequestError has been dealt with
C2_Witness ==
    /\ result # "none"
    /\ primary = "RequestError"
    /\ calls = <<"google", "sphinx">>

\* ------------------------------------------------------------------ C8
\* C8 as claimed: once _transcribe_chunk has returned, the chunk has a
\* transcript if and only if an engine returned text.
C8_TranscriptIffText ==
    result # "none" => (LastFile.kind = "transcript" <=> text)

\* C8 amended: a transcript is written if and only if an engine returned text
\* and writing the transcript file did not itself fail; unintelligible audio,
\* both engines failing, or a failed transcript write leave the chunk without
\* a transcript, nothing propagates, and the loop of _process_chunks moves on
\* to the sample right after the chunk's window.
C8_TranscriptWritten ==
    result # "none" =>
        /\ LastFile.kind = "transcript" <=> (text /\ result # "Transcription error")
        /\ LastFile.kind = "transcript" => LastFile.k = ChunkFiles[Len(ChunkFiles)].k
        /\ primary = "UnknownValueError" => LastFile.kind # "transcript"
        /\ ~Done => pc = "chunks" /\ i = Len(ChunkFiles) * chunk_samples

\* a chunk was skipped after both engines failed and a later chunk has a
\* transcript from the fallback engine
C8_Witness ==
    /\ result = "Transcribed"
    /\ primary = "RequestError"
    /\ Len(ChunkFiles) = 2
    /\ Len(Transcripts) = 1

\* ------------------------------------------------------------------ C9
\* C9: nothing is written while the capture stream is open; the full
\* recording is the first file; a transcript directly follows the WAV file of
\* its chunk; while a chunk is being transcribed its WAV file is the last
\* file written, so chunk k+1 is written only after chunk k is dealt with.
C9_SerialPipeline ==
    /\ streamOpen => files = <<>>
    /\ Capturing => files = <<>>
    /\ \A n \in 1..Len(files) :
        /\ files[n].kind = "full" <=> n = 1
        /\ files[n].kind = "transcript" =>
               /\ files[n - 1].kind = "chunk"
               /\ files[n - 1].k = files[n].k
               /\ files[n - 1].lo = files[n].lo
    /\ Transcribing => LastFile.kind = "chunk" /\ LastFile.lo = i
    /\ calls # <<>> => Len(ChunkFiles) > 0
    /\ \A m, n \in 1..Len(ChunkFiles) : m < n => ChunkFiles[m].k < ChunkFiles[n].k

\* a session ended with two chunks written and both transcribed
C9_Witness ==
    /\ Done
    /\ Len(ChunkFiles) = 2
    /\ Len(Transcripts) = 2
    /\ Len(delivered) > 0

\* ------------------------------------------------------------------ C6
\* C6: save_recording runs exactly once on every way out of record_audio
\* (natural stop, capture error, interrupt), after the stream is closed, and a
\* non-empty buffer is written whole as the full recording.
C6_FlushedOnce ==
    /\ (Capturing \/ pc = "finally") => saveCalls = 0
    /\ (~Capturing /\ pc # "finally") => saveCalls = 1
    /\ (saveCalls = 1 /\ frames # <<>>) =>
           /\ files # <<>>
           /\ files[1] = [kind |-> "full", k |-> 0, lo |-> 0, hi |-> Len(frames)]
           /\ audio_data = frames
    /\ saveCalls = 1 => ~streamOpen

\* the running stream raised with blocks in the buffer, and they were flushed
C6_Witness ==
    /\ Done
    /\ exitPath = "error"
    /\ Len(delivered) > 0
    /\ frames # <<>>
    /\ files[1].hi = Len(frames)

C3_StopsAtFirstExceedingCheck ==
    /\ \A j \in 1..Len(delivered) :
           (delivered[j].silent /\ delivered[j].over) =>
               ~recording /\ stoppedAt # 0 /\ stoppedAt <= j
    /\ stoppedAt # 0 =>
           delivered[stoppedAt].silent /\ delivered[stoppedAt].over
    /\ exitPath = "stopped" => stoppedAt # 0

\* ------------------------------------------------------------------ C4
\* C4: every block handed to the callback is appended to frames, in arrival
\* order, and the flushed recording holds them all.
C4_EveryBlockAppended ==
    /\ frames = [j \in 1..Len(frames) |-> j]
    /\ ~(pc \in {"init", "open"}) => Len(frames) = Len(delivered)
    /\ files # <<>> => files[1].hi = Len(delivered)

====
